---- MODULE Spec2Model ----
(***************************************************************************)
(* A model of TorchBlocks' checkpoint manager                              *)
(* (torchblocks/callback/modelcheckpoint.py), of the example drivers       *)
(* (examples/task_text_classification_*_cola.py): their evaluation and     *)
(* prediction phases, the SDA and ALUM trainers and adv_project, and of    *)
(* the evaluation loop and the span extraction of the sequence labeling    *)
(* trainers (torchblocks/trainer/sequence_labeling_trainer.py).            *)
(***************************************************************************)
EXTENDS Integers, Sequences, FiniteSets, TLC

\* ------------------------------------------------------------------ bounds
\* Finite metric values are 0..MaxMetric.
MaxMetric == 2
\* Step numbers (state['step']) are 1..MaxStep.
MaxStep == 2
\* Calls made on the checkpoint manager after its construction.
MaxOps == 3
\* --checkpoint_number is -MaxCkpt..MaxCkpt.
MaxCkpt == 2
\* get_checkpoints finds 0..MaxFound checkpoints.
MaxFound == 2
\* Label sequences have at most MaxLen positions, of which at most MaxPad are padding
\* past the true length; labels are 0..MaxLabel.
MaxLen == 4
MaxLabel == 2
MaxPad == 1
\* evaluate runs over 1..MaxSeqs sequences.
MaxSeqs == 2
\* A model has 1..MaxParams parameters with values 0..MaxParam.
MaxParams == 2
MaxParam == 1
\* --adv_K is 0..MaxAdvK.
MaxAdvK == 2
\* Calls of _train_step and _train_update made on a trainer.
MaxTrainOps == 3
\* A gradient row has 1..MaxRow components, each in -MaxGrad..MaxGrad.
MaxRow == 3
MaxGrad == 4

VARIABLES
    mgr,      \* the ModelCheckpoint object: its attributes
    fs,       \* the checkpoint directories under base_path
    state,    \* the caller's state map (a dict, mutated in place by the calls)
    last,     \* the last call: [op, current, dir, err, saved]
    writes,   \* per directory: the number of state.bin that step() wrote there
    run,      \* the step() calls on the current manager, see NewRun
    seen,     \* the best of the metric values passed to step() on the current manager
    nops,     \* calls made so far
    drv,      \* an example driver's main(): its arguments and where it is
    ex,       \* one call of extract_items: its arguments and its result
    ev,       \* one call of SequenceLabelingTrainer.evaluate: its records and where it is
    tr,       \* a trainer of the example drivers: parameters, gradients, counters
    ap        \* one call of adv_project: its arguments and its result

ckptVars == <<mgr, fs, state, last, writes, run, seen, nops>>

\* The value of a variable whose component is not in use.
Idle == [pc |-> "idle"]

\* ------------------------------------------------------------------ values
\* Python values, all of one shape so that any two can be compared.
Num(n) == [k |-> "num", v |-> n]
PosInf == [k |-> "inf", v |-> 1]
NegInf == [k |-> "inf", v |-> -1]
NaN == [k |-> "nan", v |-> 0]
None == [k |-> "None", v |-> 0]
Obj == [k |-> "obj", v |-> 0]
\* A model object, by the save hooks it exposes: 0 none, 1 save, 2 save_pretrained, 3 both.
ModelObj(h) == [k |-> "model", v |-> h]

Finite == {Num(n) : n \in 0..MaxMetric}
\* The metric values a caller passes to step.
Currents == Finite \cup {PosInf, NegInf, NaN}
Steps == 1..MaxStep

\* np.less / np.greater on floats: every comparison with nan is False.
\* np.less_equal in the place of np.less.
np_less_equal(a, b) ==
    IF a.k = "nan" \/ b.k = "nan" THEN FALSE
    ELSE IF a.k = "inf" THEN a.v = -1 \/ b = PosInf
    ELSE IF b.k = "inf" THEN b.v = 1
    ELSE a.v <= b.v

np_less(a, b) ==
    IF a.k = "nan" \/ b.k = "nan" THEN FALSE
    ELSE IF a.k = "inf" THEN a.v = -1 /\ b # NegInf
    ELSE IF b.k = "inf" THEN b.v = 1
    ELSE a.v < b.v

np_greater(a, b) == np_less(b, a)

\* Python truthiness of a state value (state.get(key, None)).
Truthy(x) == x.k # "None"

hasattr_save(m) == m.v \in {1, 3}
hasattr_save_pretrained(m) == m.v \in {2, 3}

\* ------------------------------------------------------------------ file system
BestDir == [tag |-> "best", n |-> 0]
StepDir(n) == [tag |-> "step", n |-> n]
DirNames == {BestDir} \cup {StepDir(n) : n \in Steps}

WEIGHTS == "weights"
ARGS_BIN == "training_args.bin"
OPTIMIZER_PT == "optimizer.pt"
SCHEDULER_PT == "scheduler.pt"
STATE_BIN == "state.bin"

\* A state map is a function from its keys to values; NoBlob is the absent state.bin.
NoBlob == [nothing |-> None]
EmptyDir == [exists |-> FALSE, files |-> {}, blob |-> NoBlob]

Has(st, key) == key \in DOMAIN st
Pop(st, key) == [x \in (DOMAIN st) \ {key} |-> st[x]]
Put(st, key, val) == [x \in (DOMAIN st) \cup {key} |-> IF x = key THEN val ELSE st[x]]

\* The state maps a caller may build: 'step' always, the rest optional.
EmptyMap == [x \in {} |-> None]
Optional(key, vals) == {EmptyMap} \cup {[x \in {key} |-> v] : v \in vals}
Merge(f, g) == [x \in (DOMAIN f) \cup (DOMAIN g) |-> IF x \in DOMAIN f THEN f[x] ELSE g[x]]
StateInputs ==
    {Merge(Merge(Merge(Merge(s, m), a), o), c) :
        s \in {[x \in {"step"} |-> Num(n)] : n \in Steps},
        m \in Optional("model", {ModelObj(h) : h \in 0..3}),
        a \in Optional("args", {Obj}),
        o \in Optional("optimizer", {None, Obj}),
        c \in Optional("scheduler", {None, Obj})}

\* The state maps the trainer builds for step: the complete one (with or without
\* optimizer and scheduler), and the ones that make saving fail or save nothing: no
\* 'model', no 'args', a model without a save hook.
FullState(n) ==
    [x \in {"step", "model", "args", "optimizer", "scheduler"} |->
        IF x = "step" THEN Num(n)
        ELSE IF x = "model" THEN ModelObj(2)
        ELSE Obj]
TrainerInputs ==
    UNION {{FullState(n),
            Pop(Pop(FullState(n), "optimizer"), "scheduler"),
            Pop(FullState(n), "model"),
            Pop(FullState(n), "args"),
            Put(FullState(n), "model", ModelObj(0))} : n \in Steps}

\* ------------------------------------------------------------------ ModelCheckpoint
\* __init__ with the two initial infinities exchanged.
InitAttrsSwapped(mode, save_best_only) ==
    LET base == [save_best_only |-> save_best_only,
                 output_dir |-> IF save_best_only THEN "checkpoint-best" ELSE "checkpoint-%s"]
    IN  IF mode = "min" THEN Merge(base, [monitor_op |-> "less", best |-> NegInf])
        ELSE IF mode = "max" THEN Merge(base, [monitor_op |-> "greater", best |-> PosInf])
        ELSE base

\* __init__: the attributes set for a mode; any other mode sets neither
\* monitor_op nor best.
InitAttrs(mode, save_best_only) ==
    LET base == [save_best_only |-> save_best_only,
                 output_dir |-> IF save_best_only THEN "checkpoint-best" ELSE "checkpoint-%s"]
    IN  IF mode = "min" THEN Merge(base, [monitor_op |-> "less", best |-> PosInf])
        ELSE IF mode = "max" THEN Merge(base, [monitor_op |-> "greater", best |-> NegInf])
        ELSE base

\* __init__: os.makedirs of the best directory under save_best_only.
InitDirs(f, save_best_only) ==
    IF save_best_only THEN [f EXCEPT ![BestDir].exists = TRUE] ELSE f

monitor_op(m, a, b) == IF m.monitor_op = "less" THEN np_less(a, b) ELSE np_greater(a, b)

\* save_checkpoint, statement by statement, on c = [fs, st, err, saved]: the file
\* system, the state map, the exception raised and whether state.bin was written.
Mkdir(c, d) == [c EXCEPT !.fs[d].exists = TRUE]

WriteFile(c, d, name) == [c EXCEPT !.fs[d].files = @ \cup {name}]

AssertModel(c) ==
    IF Has(c.st, "model") THEN c ELSE [c EXCEPT !.err = "AssertionError"]

SaveModel(c, d) ==
    IF c.err # "none" THEN c
    ELSE LET model == c.st["model"]
             w == IF hasattr_save(model) \/ hasattr_save_pretrained(model)
                  THEN WriteFile(c, d, WEIGHTS) ELSE c
         IN  [w EXCEPT !.st = Pop(c.st, "model")]

SaveArgs(c, d) ==
    IF c.err # "none" THEN c
    ELSE IF ~Has(c.st, "args") THEN [c EXCEPT !.err = "KeyError"]
    ELSE [WriteFile(c, d, ARGS_BIN) EXCEPT !.st = Pop(c.st, "args")]

\* The optimizer / scheduler step that removes the key whatever its value.
SaveOptionalAlwaysPop(c, d, key, name) ==
    IF c.err # "none" THEN c
    ELSE IF Has(c.st, key) /\ Truthy(c.st[key])
         THEN [WriteFile(c, d, name) EXCEPT !.st = Pop(c.st, key)]
         ELSE [c EXCEPT !.st = Pop(c.st, key)]

SaveOptional(c, d, key, name) ==
    IF c.err # "none" THEN c
    ELSE IF Has(c.st, key) /\ Truthy(c.st[key])
         THEN [WriteFile(c, d, name) EXCEPT !.st = Pop(c.st, key)]
         ELSE c

SaveState(c, d) ==
    IF c.err # "none" THEN c
    ELSE [WriteFile(c, d, STATE_BIN) EXCEPT !.fs[d].blob = c.st, !.saved = TRUE]

\* save_checkpoint that checks for 'model' only after it has saved the arguments.
save_checkpoint_late_assert(f, st, d) ==
    LET c0 == [fs |-> f, st |-> st, err |-> "none", saved |-> FALSE]
        c1 == IF ~f[d].exists THEN Mkdir(c0, d) ELSE c0
        c2 == SaveArgs(c1, d)
        c3 == IF c2.err # "none" THEN c2 ELSE AssertModel(c2)
        c4 == SaveModel(c3, d)
        c5 == SaveOptional(c4, d, "optimizer", OPTIMIZER_PT)
        c6 == SaveOptional(c5, d, "scheduler", SCHEDULER_PT)
    IN  SaveState(c6, d)

save_checkpoint(f, st, d) ==
    LET c0 == [fs |-> f, st |-> st, err |-> "none", saved |-> FALSE]
        c1 == IF ~f[d].exists THEN Mkdir(c0, d) ELSE c0
        c2 == AssertModel(c1)
        c3 == SaveModel(c2, d)
        c4 == SaveArgs(c3, d)
        c5 == SaveOptional(c4, d, "optimizer", OPTIMIZER_PT)
        c6 == SaveOptional(c5, d, "scheduler", SCHEDULER_PT)
    IN  SaveState(c6, d)

\* step under save_best_only that persists without recording the new best.
StepBestKeepBest(m, f, st, current) ==
    IF ~Has(m, "monitor_op")
    THEN [mgr |-> m, fs |-> f, st |-> st, err |-> "AttributeError", dir |-> BestDir,
          saved |-> FALSE]
    ELSE IF monitor_op(m, current, m.best)
    THEN LET st1 == Put(st, "best", m.best)
             r == save_checkpoint(f, st1, BestDir)
         IN  [mgr |-> m, fs |-> r.fs, st |-> r.st, err |-> r.err, dir |-> BestDir,
              saved |-> r.saved]
    ELSE [mgr |-> m, fs |-> f, st |-> st, err |-> "none", dir |-> BestDir, saved |-> FALSE]

\* step under save_best_only: [mgr, fs, st, err, dir, saved].
StepBest(m, f, st, current) ==
    IF ~Has(m, "monitor_op")
    THEN [mgr |-> m, fs |-> f, st |-> st, err |-> "AttributeError", dir |-> BestDir,
          saved |-> FALSE]
    ELSE IF monitor_op(m, current, m.best)
    THEN LET m1 == [m EXCEPT !.best = current]
             st1 == Put(st, "best", m1.best)
             r == save_checkpoint(f, st1, BestDir)
         IN  [mgr |-> m1, fs |-> r.fs, st |-> r.st, err |-> r.err, dir |-> BestDir,
              saved |-> r.saved]
    ELSE [mgr |-> m, fs |-> f, st |-> st, err |-> "none", dir |-> BestDir, saved |-> FALSE]

\* step without save_best_only that does not look whether the directory exists.
StepEveryNoCheck(m, f, st, current) ==
    LET d == StepDir(st["step"].v)
        r == save_checkpoint([f EXCEPT ![d].exists = TRUE], st, d)
    IN  [mgr |-> m, fs |-> r.fs, st |-> r.st, err |-> r.err, dir |-> d, saved |-> r.saved]

\* step without save_best_only.
StepEvery(m, f, st, current) ==
    LET d == StepDir(st["step"].v)
    IN  IF ~f[d].exists
        THEN LET r == save_checkpoint([f EXCEPT ![d].exists = TRUE], st, d)
             IN  [mgr |-> m, fs |-> r.fs, st |-> r.st, err |-> r.err, dir |-> d,
                  saved |-> r.saved]
        ELSE [mgr |-> m, fs |-> f, st |-> st, err |-> "none", dir |-> d, saved |-> FALSE]

step(m, f, st, current) ==
    IF m.save_best_only THEN StepBest(m, f, st, current) ELSE StepEvery(m, f, st, current)

\* ------------------------------------------------------------------ history
\* The order of the extended reals, nan apart: a < b.
Rank(x) == IF x.k = "inf" THEN x.v * (MaxMetric + 1) ELSE x.v
StrictlyLess(a, b) == a.k # "nan" /\ b.k # "nan" /\ Rank(a) < Rank(b)
StrictlyBetter(m, v, b) ==
    IF m.monitor_op = "less" THEN StrictlyLess(v, b) ELSE StrictlyLess(b, v)

Valid(m) == Has(m, "monitor_op") /\ Has(m, "best")

\* The best value passed so far under the manager's direction, starting from the
\* infinity no value is worse than; nan is never better, and a manager without a
\* direction has no best value.
NoneSeen(m) ==
    IF ~Has(m, "monitor_op") THEN NaN
    ELSE IF m.monitor_op = "less" THEN PosInf ELSE NegInf
NextSeen(m, sn, current) ==
    IF Has(m, "monitor_op") /\ StrictlyBetter(m, current, sn) THEN current ELSE sn

NoCall == [op |-> "init", current |-> NaN, dir |-> BestDir, err |-> "none", saved |-> FALSE]

\* The step() calls made on the current manager: n calls, saved of them wrote a
\* state.bin into the best directory, prev is the last metric value; improving while
\* every value was finite and strictly better than the one before, clean while every
\* call returned without an error. A run that is no longer both is not followed.
NewRun == [n |-> 0, saved |-> 0, improving |-> TRUE, clean |-> TRUE, prev |-> NaN]
DeadRun == [n |-> 0, saved |-> 0, improving |-> FALSE, clean |-> FALSE, prev |-> NaN]

Better(m, a, b) == Has(m, "monitor_op") /\ monitor_op(m, a, b)

NextRun(rn, m, current, err, w) ==
    LET improving == /\ rn.improving
                     /\ current \in Finite
                     /\ rn.n > 0 => Better(m, current, rn.prev)
        clean == rn.clean /\ err = "none"
    IN  IF improving /\ clean
        THEN [n |-> rn.n + 1, saved |-> rn.saved + (IF w THEN 1 ELSE 0),
              improving |-> TRUE, clean |-> TRUE, prev |-> current]
        ELSE DeadRun

\* ------------------------------------------------------------------ example drivers
\* main() of task_text_classification_alum_cola.py and ..._sda_cola.py from the
\* evaluation block on; the two files have the same code there.
DrvArgs ==
    [pc : {"eval"}, do_eval : BOOLEAN, local_rank : {-1, 0, 1},
     eval_all_checkpoints : BOOLEAN, do_predict : BOOLEAN,
     checkpoint_number : -MaxCkpt..MaxCkpt,
     todo : {0}, pgets : {0}, ploads : {0}]

\* get_checkpoints(output_dir, checkpoint_number, WEIGHTS_NAME) is not part of these
\* files: it returns some list of checkpoint directories.
Found == 0..MaxFound

\* if args.do_eval and args.local_rank in [-1, 0]: the checkpoints to evaluate.
Evaluate ==
    /\ drv.pc = "eval"
    /\ IF drv.do_eval /\ drv.local_rank \in {-1, 0}
       THEN IF drv.eval_all_checkpoints \/ drv.checkpoint_number > 0
            THEN \E n \in Found : drv' = [drv EXCEPT !.pc = "eval_loop", !.todo = n]
            ELSE drv' = [drv EXCEPT !.pc = "eval_loop", !.todo = 1]
       ELSE drv' = [drv EXCEPT !.pc = "predict"]
    /\ UNCHANGED <<ckptVars, ex, ev, tr, ap>>

\* for checkpoint in checkpoints: from_pretrained, evaluate; then dict_to_text.
EvalLoad ==
    /\ drv.pc = "eval_loop"
    /\ IF drv.todo > 0
       THEN drv' = [drv EXCEPT !.todo = @ - 1]
       ELSE drv' = [drv EXCEPT !.pc = "predict"]
    /\ UNCHANGED <<ckptVars, ex, ev, tr, ap>>

\* if args.checkpoint_number == 0: raise ValueError; every other number passes.
AcceptsNumber(n) == n # 0

\* if args.do_predict: the check of checkpoint_number, then get_checkpoints.
Predict ==
    /\ drv.pc = "predict"
    /\ IF ~drv.do_predict THEN drv' = [drv EXCEPT !.pc = "done"]
       ELSE IF ~AcceptsNumber(drv.checkpoint_number)
       THEN drv' = [drv EXCEPT !.pc = "ValueError"]
       ELSE \E n \in Found :
                drv' = [drv EXCEPT !.pc = "predict_loop", !.todo = n, !.pgets = @ + 1]
    /\ UNCHANGED <<ckptVars, ex, ev, tr, ap>>

\* for checkpoint in checkpoints: from_pretrained, predict.
PredictLoad ==
    /\ drv.pc = "predict_loop"
    /\ IF drv.todo > 0
       THEN drv' = [drv EXCEPT !.todo = @ - 1, !.ploads = @ + 1]
       ELSE drv' = [drv EXCEPT !.pc = "done"]
    /\ UNCHANGED <<ckptVars, ex, ev, tr, ap>>

\* ------------------------------------------------------------------ extract_items
Labels == 0..MaxLabel

Min(a, b) == IF a < b THEN a ELSE b
Max(a, b) == IF a > b THEN a ELSE b

\* Python's seq[lo:hi] on a list; a negative bound counts from the end, and both
\* are clamped to the list.
PyIndex(n, i) == IF i < 0 THEN Max(n + i, 0) ELSE Min(i, n)
PySlice(seq, lo, hi) ==
    LET a == PyIndex(Len(seq), lo)
        b == PyIndex(Len(seq), hi)
    IN  IF a >= b THEN <<>> ELSE [k \in 1..(b - a) |-> seq[a + k]]

\* for j, e_l in enumerate(end_[i:]): the last j with s_l == e_l, or -1.
RECURSIVE LastMatch(_, _, _)
LastMatch(tail, s_l, j) ==
    IF j < 0 THEN -1
    ELSE IF tail[j + 1] = s_l THEN j
    ELSE LastMatch(tail, s_l, j - 1)
ScanLast(tail, s_l, j) == LastMatch(tail, s_l, Len(tail) - 1)

\* for j, e_l in enumerate(end_[i:]): the j at which the loop breaks, or -1 when it
\* runs to the end.
RECURSIVE Scan(_, _, _)
Scan(tail, s_l, j) ==
    IF j >= Len(tail) THEN -1
    ELSE IF s_l = tail[j + 1] THEN j
    ELSE Scan(tail, s_l, j + 1)

\* for i, s_l in enumerate(start_): the items appended from position i on.
RECURSIVE Collect(_, _, _)
Collect(start_, end_, i) ==
    IF i >= Len(start_) THEN <<>>
    ELSE LET s_l == start_[i + 1]
             j == IF s_l = 0 THEN -1 ELSE Scan(PySlice(end_, i, Len(end_)), s_l, 0)
         IN  (IF j < 0 THEN <<>> ELSE << <<s_l, i, i + j>> >>)
                 \o Collect(start_, end_, i + 1)

\* extract_items that keeps the two boundary positions.
extract_items_untrimmed(start_, end_, length) ==
    Collect(PySlice(start_, 0, length), PySlice(end_, 0, length), 0)

extract_items(start_, end_, length) ==
    LET s == PySlice(PySlice(start_, 0, length), 1, -1)
        e == PySlice(PySlice(end_, 0, length), 1, -1)
    IN  Collect(s, e, 0)

\* One call: the two label lists have the padded length, length is the true length.
InitExtract ==
    /\ \E n \in 0..MaxLen :
        \E s \in [1..n -> Labels], e \in [1..n -> Labels],
           length \in Max(n - MaxPad, 0)..n :
            ex = [pc |-> "call", start_ |-> s, end_ |-> e, length |-> length,
                  items |-> <<>>]

ExtractItems ==
    /\ ex.pc = "call"
    /\ ex' = [ex EXCEPT !.pc = "done",
                        !.items = extract_items(ex.start_, ex.end_, ex.length)]
    /\ UNCHANGED <<ckptVars, drv, ev, tr, ap>>

\* ------------------------------------------------------------------ evaluate
\* records['target'][i][j] and records['preds'][i][j]: the loop never looks at a
\* label, so each entry stands for itself.
Target(i, j) == [of |-> "target", i |-> i, j |-> j]
Pred(i, j) == [of |-> "preds", i |-> i, j |-> j]

\* The records after _predict_forward: per sequence its padded length, len(label),
\* and its true length input_lens[i], from 1 up to the padded length.
InitEvaluate ==
    \E n \in 1..MaxSeqs :
        \E pads \in [1..n -> 1..MaxLen], lens \in [1..n -> 1..MaxLen] :
            /\ \A k \in 1..n : lens[k] <= pads[k]
            /\ ev = [pc |-> "sequence", pads |-> pads, lens |-> lens, i |-> 0, j |-> 0,
                     temp_1 |-> <<>>, temp_2 |-> <<>>, updates |-> <<>>]

\* for i, label in enumerate(self.records['target']): the next sequence, or the end
\* of the loop.
EvalSequence ==
    /\ ev.pc = "sequence"
    /\ IF ev.i < Len(ev.pads)
       THEN ev' = [ev EXCEPT !.pc = "position", !.j = 0, !.temp_1 = <<>>, !.temp_2 = <<>>]
       ELSE ev' = [ev EXCEPT !.pc = "done"]
    /\ UNCHANGED <<ckptVars, drv, ex, tr, ap>>

\* for j, m in enumerate(label): one position of sequence i.
EvalPosition ==
    /\ ev.pc = "position"
    /\ IF ev.j >= ev.pads[ev.i + 1]
       THEN ev' = [ev EXCEPT !.pc = "sequence", !.i = @ + 1]
       ELSE IF ev.j = 0
       THEN ev' = [ev EXCEPT !.j = @ + 1]
       ELSE IF ev.j = ev.lens[ev.i + 1] - 1
       THEN ev' = [ev EXCEPT !.pc = "sequence", !.i = @ + 1,
                             !.updates = Append(@, [i |-> ev.i, input |-> ev.temp_2,
                                                    target |-> ev.temp_1])]
       ELSE ev' = [ev EXCEPT !.j = @ + 1,
                             !.temp_1 = Append(@, Target(ev.i, ev.j)),
                             !.temp_2 = Append(@, Pred(ev.i, ev.j))]
    /\ UNCHANGED <<ckptVars, drv, ex, tr, ap>>

\* ------------------------------------------------------------------ trainers
\* Floats as exact fractions n / d with d > 0, in lowest terms.
RECURSIVE GCD(_, _)
GCD(a, b) == IF b = 0 THEN a ELSE GCD(b, a % b)
Abs(x) == IF x < 0 THEN -x ELSE x
Rat(n, d) ==
    LET g == GCD(Abs(n), d)
    IN  [n |-> n \div g, d |-> d \div g]
RLe(a, b) == a.n * b.d <= b.n * a.d
RMin(a, b) == IF RLe(b, a) THEN b ELSE a

\* s_param.sub_(one_minus_decay * (s_param - param)) on a teacher value t and a
\* student value s, with one_minus_decay = 1.0 - decay.
EmaStep(t, s, decay) ==
    LET omd == Rat(decay.d - decay.n, decay.d)
        diff == Rat(t.n - s * t.d, t.d)
        prod == Rat(omd.n * diff.n, omd.d * diff.d)
    IN  Rat(t.n * prod.d - prod.n * t.d, t.d * prod.d)

\* decay = min(self.args.kd_decay, (1 + self.global_step) / (10 + self.global_step))
Decay(kd_decay, global_step) == RMin(kd_decay, Rat(1 + global_step, 10 + global_step))

\* [p for p in model.parameters() if p.requires_grad]: the positions kept, in order.
Trainable(requires_grad) ==
    SelectSeq([k \in 1..Len(requires_grad) |-> k], LAMBDA k : requires_grad[k])

\* The teacher update that pairs every teacher parameter with the student parameter
\* at its own position.
TeacherUpdateAligned(teacher, student, requires_grad, decay) ==
    [k \in 1..Len(teacher) |-> EmaStep(teacher[k], student[k], decay)]

\* for s_param, param in zip(self.kd_model.parameters(), parameters): the k-th
\* teacher parameter meets the k-th trainable student parameter, and zip stops at
\* the shorter list.
TeacherUpdate(teacher, student, requires_grad, decay) ==
    LET parameters == Trainable(requires_grad)
    IN  [k \in 1..Len(teacher) |->
            IF k <= Len(parameters)
            THEN EmaStep(teacher[k], student[parameters[k]], decay)
            ELSE teacher[k]]

ParamValues == 0..MaxParam
\* --kd_decay: below and above the first values of the schedule.
KdDecays == {Rat(1, 10), Rat(999, 1000)}

NoTrainCall ==
    [op |-> "init", ret |-> "none", backwards |-> 0, optimizer_step |-> FALSE,
     scheduler_step |-> FALSE, zero_grad |-> FALSE, teacher_update |-> FALSE]

\* A trainer at the start of a run, no update made yet: SDATrainer holds a deep copy
\* of the model as its teacher; grad counts the backward passes accumulated on a parameter.
InitTrainer ==
    \E kind \in {"sda", "alum"}, n \in 1..MaxParams, adv_K \in 0..MaxAdvK,
       kd_decay \in KdDecays, sob \in BOOLEAN :
        \E student \in [1..n -> ParamValues], requires_grad \in [1..n -> BOOLEAN] :
            /\ kind = "sda" => adv_K = 0
            /\ kind = "alum" => kd_decay = Rat(1, 10) /\ ~sob
            /\ tr = [kind |-> kind, adv_K |-> adv_K, kd_decay |-> kd_decay,
                     scheduler_on_batch |-> sob, global_step |-> 0,
                     student |-> student, requires_grad |-> requires_grad,
                     grad |-> [k \in 1..n |-> 0],
                     teacher |-> [k \in 1..n |-> Rat(student[k], 1)],
                     decay |-> Rat(0, 1), ops |-> 0, last |-> NoTrainCall]

\* loss.backward(): one more gradient on every parameter that requires one.
Backward(grad, requires_grad, times) ==
    [k \in 1..Len(grad) |-> IF requires_grad[k] THEN grad[k] + times ELSE grad[k]]

\* SDATrainer._train_step: two forward passes, one backward pass, the loss returned.
SDATrainStep ==
    /\ tr.kind = "sda" /\ tr.ops < MaxTrainOps
    /\ tr' = [tr EXCEPT !.grad = Backward(tr.grad, tr.requires_grad, 1),
                        !.ops = @ + 1,
                        !.last = [NoTrainCall EXCEPT !.op = "train_step", !.ret = "loss",
                                                     !.backwards = 1]]
    /\ UNCHANGED <<ckptVars, drv, ex, ev, ap>>

\* AlumTrainer._train_step: loss.backward() stands inside for astep in
\* range(adv_K). From the second pass on it runs over the graph of the first loss
\* once more; whether autograd still holds that graph is not decided in these
\* files, so such a pass either succeeds or raises.
AlumTrainStep ==
    /\ tr.kind = "alum" /\ tr.ops < MaxTrainOps
    /\ \E done \in 0..tr.adv_K :
        /\ done = tr.adv_K \/ done >= 1
        /\ tr' = [tr EXCEPT !.grad = Backward(tr.grad, tr.requires_grad, done),
                            !.ops = @ + 1,
                            !.last = [NoTrainCall EXCEPT
                                        !.op = "train_step",
                                        !.ret = IF done = tr.adv_K THEN "loss"
                                                ELSE "RuntimeError",
                                        !.backwards = done]]
    /\ UNCHANGED <<ckptVars, drv, ex, ev, ap>>

\* SDATrainer._train_update: optimizer.step() may move every parameter that holds a
\* gradient, then the scheduler, zero_grad, global_step += 1 and the teacher update.
SDATrainUpdate ==
    /\ tr.kind = "sda" /\ tr.ops < MaxTrainOps
    /\ \E student \in [1..Len(tr.student) -> ParamValues] :
        /\ \A k \in 1..Len(tr.student) :
                (~tr.requires_grad[k] \/ tr.grad[k] = 0) => student[k] = tr.student[k]
        /\ LET global_step == tr.global_step + 1
               decay == Decay(tr.kd_decay, global_step)
           IN  tr' = [tr EXCEPT
                        !.student = student,
                        !.grad = [k \in 1..Len(tr.grad) |-> 0],
                        !.global_step = global_step,
                        !.decay = decay,
                        !.teacher = TeacherUpdate(tr.teacher, student,
                                                  tr.requires_grad, decay),
                        !.ops = @ + 1,
                        !.last = [NoTrainCall EXCEPT
                                    !.op = "train_update",
                                    !.optimizer_step = TRUE,
                                    !.scheduler_step = tr.scheduler_on_batch,
                                    !.zero_grad = TRUE,
                                    !.teacher_update = TRUE]]
    /\ UNCHANGED <<ckptVars, drv, ex, ev, ap>>

\* ------------------------------------------------------------------ adv_project
\* A component of the result: the float n / (d + c * sqrt(sq)) in lowest terms, the
\* root being kept as it stands; 0 / 0 is nan.
NaNf == [n |-> 0, d |-> 0, c |-> 0, sq |-> 0]
Quot(n, d, c, sq) ==
    IF d = 0 /\ (c = 0 \/ sq = 0) THEN NaNf
    ELSE IF c = 0 \/ sq = 0 THEN [n |-> Rat(n, d).n, d |-> Rat(n, d).d, c |-> 0, sq |-> 0]
    ELSE [n |-> n, d |-> d, c |-> c, sq |-> sq]

Sign(x) == IF x > 0 THEN 1 ELSE IF x < 0 THEN -1 ELSE 0

RECURSIVE MaxAbs(_)
MaxAbs(row) == IF row = <<>> THEN 0 ELSE Max(Abs(Head(row)), MaxAbs(Tail(row)))
RECURSIVE SumAbs(_)
SumAbs(row) == IF row = <<>> THEN 0 ELSE Abs(Head(row)) + SumAbs(Tail(row))
RECURSIVE SumSq(_)
SumSq(row) == IF row = <<>> THEN 0 ELSE Head(row) * Head(row) + SumSq(Tail(row))

\* adv_project whose last branch divides by the sum of the absolute values.
adv_project_sum(grad, norm_type, eps) ==
    IF norm_type = "l2"
    THEN [k \in 1..Len(grad) |-> Quot(grad[k] * eps.d, eps.n, eps.d, SumSq(grad))]
    ELSE IF norm_type = "l1"
    THEN [k \in 1..Len(grad) |-> Quot(Sign(grad[k]), 1, 0, 0)]
    ELSE [k \in 1..Len(grad) |->
            Quot(grad[k] * eps.d, SumAbs(grad) * eps.d + eps.n, 0, 0)]

\* adv_project on one row (the last dimension) of grad, eps being the fraction
\* eps.n / eps.d.
adv_project(grad, norm_type, eps) ==
    IF norm_type = "l2"
    THEN [k \in 1..Len(grad) |-> Quot(grad[k] * eps.d, eps.n, eps.d, SumSq(grad))]
    ELSE IF norm_type = "l1"
    THEN [k \in 1..Len(grad) |-> Quot(Sign(grad[k]), 1, 0, 0)]
    ELSE [k \in 1..Len(grad) |->
            Quot(grad[k] * eps.d, MaxAbs(grad) * eps.d + eps.n, 0, 0)]

NormTypes == {"l2", "l1", "inf"}
EpsValues == {Rat(0, 1), Rat(1, 1000), Rat(1, 1)}

InitProject ==
    \E n \in 1..MaxRow :
        \E grad \in [1..n -> -MaxGrad..MaxGrad], norm_type \in NormTypes,
           eps \in EpsValues :
            ap = [pc |-> "call", grad |-> grad, norm_type |-> norm_type, eps |-> eps,
                  direction |-> <<>>]

AdvProject ==
    /\ ap.pc = "call"
    /\ ap' = [ap EXCEPT !.pc = "done",
                        !.direction = adv_project(ap.grad, ap.norm_type, ap.eps)]
    /\ UNCHANGED <<ckptVars, drv, ex, ev, tr>>

\* ------------------------------------------------------------------ actions
Modes == {"min", "max", "auto"}

InitCkpt ==
    /\ \E mode \in Modes, sbo \in BOOLEAN :
        /\ mgr = InitAttrs(mode, sbo)
        /\ fs = InitDirs([d \in DirNames |-> EmptyDir], sbo)
        /\ seen = NoneSeen(mgr)
    /\ state \in TrainerInputs
    /\ last = NoCall
    /\ writes = [d \in DirNames |-> 0]
    /\ run = NewRun
    /\ nops = 0
    /\ drv = Idle
    /\ ex = Idle
    /\ ev = Idle
    /\ tr = Idle /\ ap = Idle

\* ModelCheckpoint(checkpoint_dir, monitor, mode, save_best_only) on the same directory.
Construct ==
    /\ nops < MaxOps
    /\ \E mode \in Modes, sbo \in BOOLEAN :
        /\ mgr' = InitAttrs(mode, sbo)
        /\ fs' = InitDirs(fs, sbo)
        /\ seen' = NoneSeen(mgr')
    /\ last' = NoCall
    /\ run' = NewRun
    /\ nops' = nops + 1
    /\ UNCHANGED <<state, writes, drv, ex, ev, tr, ap>>

\* The caller builds the state map anew before a call.
Populate ==
    /\ nops < MaxOps
    /\ last.op # "populate"
    /\ state' \in TrainerInputs
    /\ last' = [NoCall EXCEPT !.op = "populate"]
    /\ UNCHANGED <<mgr, fs, writes, run, seen, nops, drv, ex, ev, tr, ap>>

\* checkpoint.step(state, current) on the caller's state map.
Step ==
    /\ nops < MaxOps
    /\ Has(state, "step")
    /\ \E current \in Currents :
        LET r == step(mgr, fs, state, current)
            w == r.saved
        IN  /\ mgr' = r.mgr
            /\ fs' = r.fs
            /\ state' = r.st
            /\ last' = [op |-> "step", current |-> current, dir |-> r.dir,
                        err |-> r.err, saved |-> w]
            /\ writes' = [writes EXCEPT ![r.dir] = @ + (IF w THEN 1 ELSE 0)]
            /\ run' = NextRun(run, mgr, current, r.err, w)
            /\ seen' = NextSeen(mgr, seen, current)
    /\ nops' = nops + 1
    /\ UNCHANGED <<drv, ex, ev, tr, ap>>

\* checkpoint.save_checkpoint(state, save_dir), called directly.
SaveCheckpoint ==
    /\ nops < MaxOps
    /\ \E d \in DirNames :
        LET r == save_checkpoint(fs, state, d)
        IN  /\ fs' = r.fs
            /\ state' = r.st
            /\ last' = [op |-> "save", current |-> NaN, dir |-> d, err |-> r.err,
                        saved |-> r.saved]
    /\ nops' = nops + 1
    /\ UNCHANGED <<mgr, writes, run, seen, drv, ex, ev, tr, ap>>

vars == <<mgr, fs, state, last, writes, run, seen, nops, drv, ex, ev, tr, ap>>

Init == InitCkpt

\* One manager, its step calls and the state maps the trainer builds for them.
Next == Populate \/ Step

Spec == Init /\ [][Next]_vars

\* Every call in any order: managers constructed again on the same directory, step,
\* and save_checkpoint called directly.
NextFull == Construct \/ Populate \/ Step \/ SaveCheckpoint

SpecFull == Init /\ [][NextFull]_vars

\* save_checkpoint alone, on every state map a caller can build and on directories
\* that exist or not, then again on the map it left behind.
InitSave ==
    /\ mgr = InitAttrs("min", FALSE)
    /\ \E made \in BOOLEAN : fs = [d \in DirNames |-> [EmptyDir EXCEPT !.exists = made]]
    /\ state \in StateInputs
    /\ drv = Idle
    /\ ex = Idle
    /\ ev = Idle
    /\ tr = Idle /\ ap = Idle
    /\ last = NoCall
    /\ writes = [d \in DirNames |-> 0]
    /\ run = NewRun
    /\ seen = NoneSeen(mgr)
    /\ nops = 0

SpecSave == InitSave /\ [][SaveCheckpoint]_vars


\* No checkpoint manager is in use.
InitIdleCkpt ==
    /\ mgr = Idle /\ fs = Idle /\ state = Idle /\ last = Idle
    /\ writes = Idle /\ run = Idle /\ seen = Idle /\ nops = 0

\* The example drivers with every combination of the arguments read from the
\* evaluation block on.
InitPredict == InitIdleCkpt /\ drv \in DrvArgs /\ ex = Idle /\ ev = Idle /\ tr = Idle /\ ap = Idle
NextPredict == Evaluate \/ EvalLoad \/ Predict \/ PredictLoad
SpecPredict == InitPredict /\ [][NextPredict]_vars

\* extract_items on every pair of label lists within the bounds.
InitEx == InitIdleCkpt /\ drv = Idle /\ ev = Idle /\ tr = Idle /\ ap = Idle /\ InitExtract
SpecExtract == InitEx /\ [][ExtractItems]_vars

\* extract_items on the start labels [0,1,0,0,2] with every end list over the same
\* labels and every true length.
ExampleStart == <<0, 1, 0, 0, 2>>
ExampleEnd == <<0, 0, 1, 0, 2>>
InitExample ==
    /\ InitIdleCkpt /\ drv = Idle /\ ev = Idle /\ tr = Idle /\ ap = Idle
    /\ \E e \in [DOMAIN ExampleStart -> {ExampleStart[k] : k \in DOMAIN ExampleStart}],
          length \in 0..Len(ExampleStart) :
            ex = [pc |-> "call", start_ |-> ExampleStart, end_ |-> e, length |-> length,
                  items |-> <<>>]
SpecExample == InitExample /\ [][ExtractItems]_vars

\* evaluate on every choice of padded and true lengths within the bounds.
InitEval == InitIdleCkpt /\ drv = Idle /\ ex = Idle /\ tr = Idle /\ ap = Idle /\ InitEvaluate
NextEval == EvalSequence \/ EvalPosition
SpecEval == InitEval /\ [][NextEval]_vars

\* The two trainers of the example drivers, their steps and updates in any order.
InitTrain == InitIdleCkpt /\ drv = Idle /\ ex = Idle /\ ev = Idle /\ ap = Idle /\ InitTrainer
NextTrain == SDATrainStep \/ AlumTrainStep \/ SDATrainUpdate
SpecTrain == InitTrain /\ [][NextTrain]_vars

\* adv_project on every gradient row within the bounds.
InitAdv == InitIdleCkpt /\ drv = Idle /\ ex = Idle /\ ev = Idle /\ tr = Idle /\ InitProject
SpecProject == InitAdv /\ [][AdvProject]_vars

\* ------------------------------------------------------------------ claims
\* The transition is a call of step / of save_checkpoint (not a stuttering step).
StepCall == last'.op = "step" /\ nops' = nops + 1
SaveCall == last'.op = "save" /\ nops' = nops + 1

\* save_checkpoint runs to its end on this state map.
Savable(st) == Has(st, "model") /\ Has(st, "args")

\* C1: under save_best_only, step accepts the value (replaces the tracked best by it,
\* embeds it in the state and persists into the best directory) if and only if the
\* value is strictly better than the tracked best; otherwise, an equal value included,
\* it changes nothing and writes nothing.
C1_StrictImprovement ==
    [][(StepCall /\ mgr.save_best_only /\ Valid(mgr)) =>
        LET v == last'.current
        IN  IF StrictlyBetter(mgr, v, mgr.best)
            THEN /\ mgr'.best = v
                 /\ Savable(state) =>
                        /\ last'.saved
                        /\ last'.dir = BestDir
                        /\ fs'[BestDir].blob["best"] = v
            ELSE /\ mgr' = mgr
                 /\ fs' = fs
                 /\ state' = state
                 /\ ~last'.saved]_vars

C1_Witness ==
    /\ last.op = "step" /\ mgr.save_best_only /\ Valid(mgr)
    /\ last.saved /\ last.current \in Finite /\ mgr.best = last.current
    /\ fs[BestDir].blob["best"] = last.current
    /\ run.n = 2

\* C2: without save_best_only, step persists whatever the metric value into the
\* directory keyed by state['step'] when that directory does not exist yet, and a
\* call with a step number whose directory exists is a no-op: nothing is written,
\* the state map is not mutated; so step writes at most one state.bin per step number.
C2_StepDirIdempotent ==
    /\ [](\A n \in Steps : writes[StepDir(n)] <= 1)
    /\ [][(StepCall /\ ~mgr.save_best_only) =>
            LET d == StepDir(state["step"].v)
            IN  IF fs[d].exists
                THEN /\ fs' = fs
                     /\ state' = state
                     /\ mgr' = mgr
                     /\ writes' = writes
                     /\ last'.err = "none"
                ELSE /\ fs'[d].exists
                     /\ \A e \in DirNames \ {d} : fs'[e] = fs[e]
                     /\ Savable(state) =>
                            /\ last'.saved /\ last'.dir = d /\ last'.err = "none"
                            /\ writes'[d] = 1
                            /\ {WEIGHTS, ARGS_BIN, STATE_BIN} \cap fs'[d].files
                                 = {ARGS_BIN, STATE_BIN}
                                   \cup (IF state["model"].v = 0 THEN {} ELSE {WEIGHTS})]_vars

\* A second call with the step number of a persisted checkpoint has just returned.
C2_Witness ==
    /\ last.op = "step" /\ ~mgr.save_best_only /\ ~last.saved
    /\ writes[last.dir] = 1
    /\ STATE_BIN \in fs[last.dir].files
    /\ Savable(state)
    /\ last.current # run.prev

\* C3: under save_best_only, a run of n step calls with finite, strictly improving
\* values, each returning normally, has persisted n times, every time into the best
\* directory, and the tracked best is the last value.
C3_ImprovingRun ==
    (mgr.save_best_only /\ Valid(mgr) /\ run.improving /\ run.clean) =>
        /\ run.saved = run.n
        /\ writes[BestDir] = run.n
        /\ \A n \in Steps : writes[StepDir(n)] = 0 /\ ~fs[StepDir(n)].exists
        /\ run.n > 0 => /\ mgr.best = run.prev
                        /\ STATE_BIN \in fs[BestDir].files
                        /\ fs[BestDir].blob["best"] = run.prev

C3_Witness ==
    /\ mgr.save_best_only /\ Valid(mgr) /\ mgr.monitor_op = "less"
    /\ run.improving /\ run.clean
    /\ run.n = 3 /\ run.saved = 3 /\ writes[BestDir] = 3
    /\ mgr.best = Num(0)
    /\ \A n \in Steps : writes[StepDir(n)] = 0

\* C4 as stated: in either save mode the tracked best is the best of the values
\* passed to step so far.
C4_TrackedBestEitherMode ==
    Valid(mgr) => mgr.best = seen

\* C4, amended: under save_best_only the tracked best is the best of the values passed
\* to step so far (nan apart); without save_best_only it is never updated and keeps
\* its initial infinity.
C4_TrackedBest ==
    Valid(mgr) =>
        IF mgr.save_best_only THEN mgr.best = seen
        ELSE mgr.best = NoneSeen(mgr)

\* A value that is not better than the best one has just been passed.
C4_Witness ==
    /\ Valid(mgr) /\ mgr.save_best_only /\ mgr.monitor_op = "greater"
    /\ last.op = "step" /\ last.current \in Finite
    /\ StrictlyLess(last.current, mgr.best)
    /\ mgr.best \in Finite /\ seen = mgr.best
    /\ ~run.improving

\* C5: every checkpoint directory that exists (step skips it as already saved, or it
\* is the best directory) holds a complete record.
Complete(dir) ==
    /\ {WEIGHTS, ARGS_BIN, STATE_BIN} \subseteq dir.files
    /\ dir.blob # NoBlob
C5_ExistingIsComplete ==
    \A d \in DirNames : fs[d].exists => Complete(fs[d])

\* C8: every manager has a tracked best and a comparator, and step never fails for
\* lack of them.
C8_InitValidates ==
    /\ Valid(mgr)
    /\ last.err # "AttributeError"

\* C6 as stated: after a successful save_checkpoint neither the state map nor the
\* blob of state.bin has any of the keys model, optimizer, scheduler, args, and every
\* other key is kept.
Dropped == {"model", "optimizer", "scheduler", "args"}
C6_AllFourKeysRemoved ==
    [][(SaveCall /\ last'.err = "none") =>
        /\ DOMAIN state' = (DOMAIN state) \ Dropped
        /\ \A x \in DOMAIN state' : state'[x] = state[x]
        /\ fs'[last'.dir].blob = state']_vars

\* C6, amended: after a successful save_checkpoint the state map and the blob of
\* state.bin have neither 'model' nor 'args'; 'optimizer' and 'scheduler' are removed
\* when their value is truthy (they were persisted) and kept when it is None; every
\* other key is kept unchanged.
KeptKeys(st) ==
    {x \in DOMAIN st : x \notin {"model", "args"}
                       /\ (x \in {"optimizer", "scheduler"} => st[x] = None)}
C6_PersistedKeysRemoved ==
    [][(SaveCall /\ last'.err = "none") =>
        /\ Savable(state)
        /\ DOMAIN state' = KeptKeys(state)
        /\ \A x \in DOMAIN state' : state'[x] = state[x]
        /\ fs'[last'.dir].blob = state'
        /\ STATE_BIN \in fs'[last'.dir].files]_vars

C6_Witness ==
    /\ last.op = "save" /\ last.err = "none"
    /\ Has(state, "optimizer") /\ state["optimizer"] = None
    /\ ~Has(state, "scheduler") /\ ~Has(state, "model") /\ ~Has(state, "args")
    /\ Has(state, "step")
    /\ SCHEDULER_PT \in fs[last.dir].files
    /\ fs[last.dir].blob = state

\* C7: save_checkpoint on a state map without 'model' ends in an error, writes no
\* artifact and removes no key from the map.
C7_MissingModelFailsFast ==
    [][(SaveCall /\ ~Has(state, "model")) =>
        /\ last'.err # "none"
        /\ ~last'.saved
        /\ \A d \in DirNames : fs'[d].files = fs[d].files /\ fs'[d].blob = fs[d].blob
        /\ state' = state]_vars

C7_Witness ==
    /\ last.op = "save" /\ last.err = "AssertionError"
    /\ ~Has(state, "model") /\ Has(state, "args") /\ Has(state, "optimizer")
    /\ state["optimizer"] = Obj
    /\ fs[last.dir].exists /\ fs[last.dir].files = {}
    /\ nops = 1

\* C9: in the prediction phase every checkpoint_number <= 0 ends the run in a
\* ValueError, before get_checkpoints is called and before a checkpoint is loaded.
C9_NonPositiveRejected ==
    (drv.do_predict /\ drv.checkpoint_number <= 0) =>
        /\ drv.pgets = 0
        /\ drv.ploads = 0
        /\ drv.pc # "done"
        /\ drv.pc # "predict_loop"

\* The trimmed lists of the claim: positions 1 .. length-2 of the first length ones.
Trimmed(seq, length) ==
    LET n == Max(Min(length, Len(seq)) - 2, 0)
    IN  [k \in 1..n |-> seq[k + 1]]

\* The triple position i must give, as a set of at most one element (indices from 0).
FirstMatch(s, e, i) ==
    LET js == {j \in i..(Len(e) - 1) : e[j + 1] = s[i + 1]}
    IN  IF s[i + 1] = 0 \/ js = {} THEN {}
        ELSE {<<s[i + 1], i, CHOOSE j \in js : \A x \in js : j <= x>>}

\* C10: extract_items emits, in increasing order of i, exactly one triple (s[i], i, j)
\* for every i with s[i] # 0 that has a j >= i with e[j] = s[i], j being the smallest
\* one, and nothing else; every triple has 0 <= i <= j < len(s).
C10_FirstMatchWins ==
    ex.pc = "done" =>
        LET s == Trimmed(ex.start_, ex.length)
            e == Trimmed(ex.end_, ex.length)
            items == ex.items
            want == UNION {FirstMatch(s, e, i) : i \in 0..(Len(s) - 1)}
        IN  /\ {items[k] : k \in 1..Len(items)} = want
            /\ Len(items) = Cardinality(want)
            /\ \A k \in 1..(Len(items) - 1) : items[k][2] < items[k + 1][2]
            /\ \A k \in 1..Len(items) :
                /\ 0 <= items[k][2] /\ items[k][2] <= items[k][3] /\ items[k][3] < Len(s)
                /\ s[items[k][2] + 1] = items[k][1] /\ items[k][1] # 0
                /\ e[items[k][3] + 1] = items[k][1]

\* An entity whose end lies past a position that carries the other label, and a
\* start label that no later end matches.
C10_Witness ==
    /\ ex.pc = "done"
    /\ ex.length = 4 /\ Len(ex.start_) = 4
    /\ Trimmed(ex.start_, ex.length) = <<1, 2>>
    /\ Trimmed(ex.end_, ex.length) = <<2, 1>>
    /\ ex.items = << <<1, 0, 1>> >>
    /\ ex.end_[4] = 2

\* The call on the example lists with true length 5 has returned.
ExampleDone ==
    /\ ex.pc = "done" /\ ex.length = 5
    /\ ex.start_ = ExampleStart /\ ex.end_ = ExampleEnd

\* C11 as stated: on start labels [0,1,0,0,2], end labels [0,0,1,0,2] and true length
\* 5, extract_items yields one entity for label 1 and one entity for label 2.
C11_ExampleTwoEntities ==
    ExampleDone =>
        /\ Len(ex.items) = 2
        /\ {ex.items[k][1] : k \in 1..Len(ex.items)} = {1, 2}

\* C11, amended: on that input extract_items yields exactly one entity, (1, 0, 1):
\* label 1 from trimmed position 0 to trimmed position 1; the label 2 stands at the
\* last position, which is dropped as a boundary, and gives no entity.
C11_ExampleOneEntity ==
    ExampleDone => ex.items = << <<1, 0, 1>> >>

C11_Witness ==
    /\ ExampleDone
    /\ Len(ex.items) = 1 /\ ex.items[1][1] = 1
    /\ Trimmed(ex.start_, ex.length) = <<1, 0, 0>>
    /\ Trimmed(ex.end_, ex.length) = <<0, 1, 0>>

\* The update the claim expects for sequence i (from 0) of true length L.
ExpectedUpdate(i, L) ==
    LET n == Max(L - 2, 0)
    IN  [i |-> i, input |-> [k \in 1..n |-> Pred(i, k)],
         target |-> [k \in 1..n |-> Target(i, k)]]

\* C12: when evaluate has gone through the records, the metric was updated exactly
\* once for every sequence i, in order, with target[i][1 : L-1] and preds[i][1 : L-1],
\* L = input_lens[i], for every L from 1 up to the padded length.
C12_UpdateOncePerSequence ==
    ev.pc = "done" =>
        /\ Len(ev.updates) = Len(ev.lens)
        /\ \A k \in 1..Len(ev.lens) : ev.updates[k] = ExpectedUpdate(k - 1, ev.lens[k])

\* The transition is a call of _train_update / of _train_step.
UpdateCall == tr'.last.op = "train_update" /\ tr'.ops = tr.ops + 1
TrainStepCall == tr'.last.op = "train_step" /\ tr'.ops = tr.ops + 1

\* C13: the decay a call of _train_update applies is min(kd_decay, (1 + step) /
\* (10 + step)) with step the number of updates completed before the call: 0.1 for
\* the first update of a run (kd_decay >= 0.1).
C13_DecayOfCompletedUpdates ==
    [][UpdateCall =>
        /\ tr'.decay = RMin(tr.kd_decay, Rat(1 + tr.global_step, 10 + tr.global_step))
        /\ (tr.global_step = 0 /\ RLe(Rat(1, 10), tr.kd_decay)) =>
                tr'.decay = Rat(1, 10)]_vars

\* C14: every call of _train_step that returns a loss has run at least one backward
\* pass, so every parameter that requires a gradient holds one more, and has made no
\* optimizer step, scheduler step, gradient reset or teacher update: parameters,
\* teacher and global step are unchanged.
C14_StepLeavesGradients ==
    [][(TrainStepCall /\ tr'.last.ret = "loss") =>
        /\ tr'.last.backwards >= 1
        /\ \A k \in 1..Len(tr.grad) : tr.requires_grad[k] => tr'.grad[k] > tr.grad[k]
        /\ tr'.student = tr.student
        /\ tr'.teacher = tr.teacher
        /\ tr'.global_step = tr.global_step
        /\ ~tr'.last.optimizer_step /\ ~tr'.last.scheduler_step
        /\ ~tr'.last.zero_grad /\ ~tr'.last.teacher_update]_vars

\* C16: under save_best_only the tracked best is the 'best' of the state blob last
\* written to the best directory, or the initial infinity when none was written,
\* also after a step whose save_checkpoint failed.
C16_BestIsPersistedBest ==
    (mgr.save_best_only /\ Valid(mgr)) =>
        mgr.best = IF fs[BestDir].blob = NoBlob THEN NoneSeen(mgr)
                   ELSE fs[BestDir].blob["best"]

\* C17: _train_update moves every teacher parameter toward the student parameter at
\* its own position, teacher_i - (1 - decay) * (teacher_i - student_i), whichever
\* student parameters require a gradient.
C17_TeacherFollowsSamePosition ==
    [][UpdateCall =>
        tr'.teacher = TeacherUpdateAligned(tr.teacher, tr'.student, tr.requires_grad,
                                           tr'.decay)]_vars

\* C15: adv_project under 'l1' is the element-wise sign; under 'inf' every component
\* times (the row's maximum absolute value + eps) is the input component, and its
\* magnitude is at most 1; on [3,-4,1] these give [1,-1,1] and, with eps 0,
\* [0.75,-1,0.25]; with eps > 0 no component is nan under any norm type.
C15_ProjectionMatchesReference ==
    ap.pc = "done" =>
        LET g == ap.grad
            r == ap.direction
            m == CHOOSE x \in {Abs(g[k]) : k \in 1..Len(g)} :
                    \A k \in 1..Len(g) : Abs(g[k]) <= x
            den == m * ap.eps.d + ap.eps.n
        IN  /\ Len(r) = Len(g)
            /\ ap.eps.n > 0 => \A k \in 1..Len(r) : r[k] # NaNf
            /\ ap.norm_type = "l1" =>
                    /\ \A k \in 1..Len(r) :
                            /\ r[k].d = 1 /\ r[k].c = 0 /\ r[k].n \in {-1, 0, 1}
                            /\ (r[k].n > 0) = (g[k] > 0) /\ (r[k].n < 0) = (g[k] < 0)
                    /\ g = <<3, -4, 1>> => r = <<Quot(1, 1, 0, 0), Quot(-1, 1, 0, 0),
                                                 Quot(1, 1, 0, 0)>>
            /\ (ap.norm_type = "inf" /\ den > 0) =>
                    /\ \A k \in 1..Len(r) :
                            /\ r[k].c = 0 /\ r[k].d > 0
                            /\ r[k].n * den = g[k] * ap.eps.d * r[k].d
                            /\ Abs(r[k].n) <= r[k].d
                    /\ (g = <<3, -4, 1>> /\ ap.eps.n = 0) =>
                            r = <<Quot(3, 4, 0, 0), Quot(-1, 1, 0, 0), Quot(1, 4, 0, 0)>>

\* The row [3,-4,1] has been projected under 'inf' with eps 0.
C15_Witness ==
    /\ ap.pc = "done" /\ ap.norm_type = "inf" /\ ap.eps = Rat(0, 1)
    /\ ap.grad = <<3, -4, 1>>
    /\ ap.direction[1].n = 3 /\ ap.direction[1].d = 4
    /\ ap.direction[2].n = -1 /\ ap.direction[2].d = 1
    /\ ap.direction[3].n = 1 /\ ap.direction[3].d = 4
====
